---- MODULE Spec2Model ----
(***************************************************************************)
(* Model of src/app/page.tsx: the seeded mind-map generator                *)
(* (generateMindMap) and the MindMap component that memoises its result.   *)
(*                                                                         *)
(* Numbers.  JavaScript numbers are modelled in fixed point:               *)
(*   - the state of the sequence (seedValue) is an exact integer; the      *)
(*     seeds considered are integers, for which the double arithmetic of   *)
(*     line 36 is exact.  NaN is the record NaN;                           *)
(*   - a value returned by seededRandom() is s / Modulus; where it enters  *)
(*     a coordinate it is rounded down to Resolution steps per unit;       *)
(*   - Math.cos / Math.sin are evaluated on the twelve rational points of  *)
(*     the unit circle with denominator 5, so cos^2 + sin^2 = 1 holds      *)
(*     exactly, as it does over the reals;                                 *)
(*   - coordinates and distances are integers counting 1/Unit.             *)
(***************************************************************************)
EXTENDS Integers, Sequences, FiniteSets, TLC

\* ------------------------------------------------------------------ bounds
MaxCount == 2          \* ring populations range over -1 .. MaxCount
MaxGenerations == 2    \* configuration objects handed to MindMap
Resolution == 100      \* fixed-point steps per unit of a drawn value

\* --------------------------------------------------------------- constants
Multiplier == 9301
Increment == 49297
Modulus == 233280

Unit == 10 * Resolution          \* coordinate steps per 1.0
\* Opacities and connectionProbability count thousandths.

NaN == [nan |-> TRUE, v |-> 0]
Num(n) == [nan |-> FALSE, v |-> n]

\* Seeds tried: a non-finite one, a negative one and two positive ones.
Seeds == {NaN, Num(0 - 6), Num(1), Num(264)}
Counts == (0 - 1) .. MaxCount
Distances == {0, (43 * Unit) \div 10}
Probabilities == {350, 700}
RotationSpeed == 5
\* Values of window.scrollY seen by the scroll listener.
ScrollOffsets == {0, 200}

Max(a, b) == IF a >= b THEN a ELSE b

\* ------------------------------------------------- the seeded sequence
\* (n * Multiplier) mod Modulus for n >= 0, with the product split so that
\* every intermediate value stays below 2^31.
MulMod(n) ==
    (((n * (Multiplier \div 100)) % Modulus) * 100 + n * (Multiplier % 100)) % Modulus

\* JavaScript's %: the result has the sign of the dividend.
\* The dividend is v * Multiplier + Increment.
LcgStep(v) ==
    IF v >= 0
    THEN (MulMod(v) + Increment) % Modulus
    ELSE IF (0 - v) <= Increment \div Multiplier
         THEN (v * Multiplier + Increment) % Modulus
         ELSE 0 - ((MulMod(0 - v) - Increment) % Modulus)

\* seededRandom(): the new seedValue; the value returned is  .v / Modulus.
seededRandom(s) == IF s.nan THEN NaN ELSE Num(LcgStep(s.v))

\* The returned value rounded down to Resolution steps per unit.
Fix(s) == (s.v * Resolution) \div Modulus

\* ------------------------------------------------------- trigonometry
UnitCircle ==
    << <<5, 0>>, <<4, 3>>, <<3, 4>>, <<0, 5>>, <<0 - 3, 4>>, <<0 - 4, 3>>,
       <<0 - 5, 0>>, <<0 - 4, 0 - 3>>, <<0 - 3, 0 - 4>>, <<0, 0 - 5>>,
       <<3, 0 - 4>>, <<4, 0 - 3>> >>

\* Sector limits in thousandths of a turn, halfway between grid points.
SectorLimit == <<51, 125, 199, 301, 375, 449, 551, 625, 699, 801, 875, 949>>

\* a = seededRandom() * Math.PI * 2, as thousandths of a turn in 0 .. 999.
Angle(s) == ((s.v * 1000) \div Modulus) % 1000

Sector(t) == (Cardinality({k \in 1..12 : SectorLimit[k] <= t}) % 12) + 1

Cos5(s) == UnitCircle[Sector(Angle(s))][1]
Sin5(s) == UnitCircle[Sector(Angle(s))][2]

\* ------------------------------------------------------------ the rings
Rings == <<"central", "middle", "outer">>

\* radiusFn of each ring, in steps of 1 / (2 * Resolution).
Radius2(ring, s) ==
    CASE ring = "central" -> 3 * Fix(s) + Resolution
      [] ring = "middle"  -> 4 * Fix(s) + 6 * Resolution
      [] ring = "outer"   -> 8 * Fix(s) + 10 * Resolution

\* heightFn of each ring, in steps of 1 / Unit.
Height(ring, s) ==
    CASE ring = "central" -> 10 * (2 * Fix(s) - Resolution)
      [] ring = "middle"  -> 10 * (2 * Fix(s) - Resolution)
      [] ring = "outer"   -> 10 * (6 * Fix(s) - 3 * Resolution)

\* The node pushed by one iteration of addRing, from its three draws.
MakeNode(ring, sa, sr, sh) ==
    IF sa.nan
    THEN [position |-> <<0, 0, 0>>, nan |-> TRUE]
    ELSE [position |-> << Cos5(sa) * Radius2(ring, sr),
                          Height(ring, sh),
                          Sin5(sa) * Radius2(ring, sr) >>,
          nan |-> FALSE]

\* ------------------------------------------------------- edge selection
\* Squared Euclidean distance of two positions (lines 71-73).
Dist2(p, q) ==
    (p[1] - q[1]) * (p[1] - q[1]) + (p[2] - q[2]) * (p[2] - q[2])
        + (p[3] - q[3]) * (p[3] - q[3])

\* Math.sqrt, rounded down to a whole number of steps, by bisection.
RECURSIVE SqrtBetween(_, _, _)
SqrtBetween(n, lo, hi) ==
    IF lo >= hi THEN lo
    ELSE LET mid == (lo + hi + 1) \div 2
         IN  IF mid * mid <= n THEN SqrtBetween(n, mid, hi)
                               ELSE SqrtBetween(n, lo, mid - 1)

Sqrt(n) == SqrtBetween(n, 0, 40 * Unit)

\* d of a pair of nodes (line 70); NaN when a coordinate is NaN.
Distance(n, m) ==
    IF n.nan \/ m.nan THEN NaN ELSE Num(Sqrt(Dist2(n.position, m.position)))

\* if (i >= j) return    (line 69; indices here start at 1)
SkipPairLoose(i, j) == i > j
SkipPair(i, j) == i >= j

\* d < config.connectionDistance    (line 75, left operand of &&)
WithinDistanceAlways(d, cd) == TRUE
WithinDistance(d, cd) == (~d.nan) /\ d.v < cd

\* seededRandom() > config.connectionProbability    (line 75, right operand)
AcceptInverted(draw, p) == (~draw.nan) /\ draw.v * 1000 < p * Modulus
Accept(draw, p) == (~draw.nan) /\ draw.v * 1000 > p * Modulus

\* Math.max(0.2, 1 - d / config.connectionDistance), in thousandths.
\* A division by zero gives an infinity (or NaN for 0 / 0, written -1).
Opacity(d, cd) ==
    IF cd = 0
    THEN (IF d = 0 THEN 0 - 1 ELSE 200)
    ELSE IF cd > 0
         THEN Max(200, 1000 - ((d * 1000) \div cd))
         ELSE 1000 + ((d * 1000) \div (0 - cd))

\* i < count    (line 44)
LoopContinuesInclusive(i, count) == i <= count
LoopContinues(i, count) == i < count

\* useMemo's comparison of the dependency [config] (line 118).
DepsChangedAlways(old, new) == TRUE
DepsChanged(old, new) == old # new

\* --------------------------------------------------------------- state
VARIABLES
    config,        \* the configuration object held by the parent
    configRef,     \* identity of that object
    seed,          \* SEED
    memoDeps,      \* the reference useMemo computed its value for (0: none)
    memo,          \* the value held by useMemo: [nodes, connections]
    groupCurrent,  \* group.current is attached
    scrollY,       \* the scrollY state of MindMap
    rotationY,     \* group.current.rotation.y, in thousandths
    pc,            \* position inside generateMindMap, or "idle"
    seedValue,     \* generateMindMap: let seedValue
    nodes,         \* generateMindMap: const nodes
    connections,   \* generateMindMap: const connections
    i,             \* loop index of addRing / of the outer forEach
    ringOf,        \* history: the ring whose addRing pushed each node
    pairs,         \* history: the index pair <<i, j>> of each connection
    drawn,         \* history: the states returned by the draws of the last step
    edgeDraws,     \* history: draws made by the edge-selection pass
    visited,       \* history: pairs with i < j reached by the edge-selection pass
    divisions,     \* history: evaluations of d / connectionDistance
    generations,   \* history: calls of generateMindMap
    history        \* history: arguments and result of every finished call

vars == << config, configRef, seed, memoDeps, memo, groupCurrent, scrollY,
           rotationY, pc, seedValue, nodes, connections, i, ringOf, pairs,
           drawn, edgeDraws, visited, divisions, generations, history >>

parentVars == << config, configRef, seed >>
viewVars == << groupCurrent, scrollY, rotationY >>
callVars == << pc, seedValue, nodes, connections, i, ringOf, pairs, drawn,
               edgeDraws, visited, divisions, generations >>

\* The count handed to each addRing call (lines 52, 57, 62).
CountSwapped(ring) ==
    CASE ring = "central" -> config.middleNodes
      [] ring = "middle"  -> config.centralNodes
      [] ring = "outer"   -> config.outerNodes

Count(ring) ==
    CASE ring = "central" -> config.centralNodes
      [] ring = "middle"  -> config.middleNodes
      [] ring = "outer"   -> config.outerNodes

Init ==
    /\ config \in [centralNodes : Counts, middleNodes : Counts,
                   outerNodes : Counts, connectionDistance : Distances,
                   connectionProbability : Probabilities,
                   rotationSpeed : {RotationSpeed}]
    /\ configRef = 1
    /\ seed \in Seeds
    /\ memoDeps = 0
    /\ memo = [nodes |-> <<>>, connections |-> <<>>]
    /\ groupCurrent = FALSE
    /\ scrollY = 0
    /\ rotationY = 0
    /\ pc = "idle"
    /\ seedValue = Num(0)
    /\ nodes = <<>>
    /\ connections = <<>>
    /\ i = 0
    /\ ringOf = <<>>
    /\ pairs = <<>>
    /\ drawn = <<>>
    /\ edgeDraws = 0
    /\ visited = 0
    /\ divisions = 0
    /\ generations = 0
    /\ history = <<>>

\* ------------------------------------------------------ generateMindMap
\* Entry of generateMindMap(config, SEED): lines 34-41.
EnterStale ==
    /\ pc' = "central"
    /\ seedValue' = seedValue
    /\ nodes' = <<>>
    /\ connections' = <<>>
    /\ i' = 0
    /\ ringOf' = <<>>
    /\ pairs' = <<>>
    /\ drawn' = <<>>
    /\ edgeDraws' = 0
    /\ visited' = 0
    /\ divisions' = 0
    /\ generations' = generations + 1

Enter ==
    /\ pc' = "central"
    /\ seedValue' = seed
    /\ nodes' = <<>>
    /\ connections' = <<>>
    /\ i' = 0
    /\ ringOf' = <<>>
    /\ pairs' = <<>>
    /\ drawn' = <<>>
    /\ edgeDraws' = 0
    /\ visited' = 0
    /\ divisions' = 0
    /\ generations' = generations + 1

\* One iteration of the loop of addRing (lines 44-48) for the ring, or the
\* end of that call and the start of what follows it.
AddRing(ring, after) ==
    /\ pc = ring
    /\ IF LoopContinues(i, Count(ring))
       THEN LET sa == seededRandom(seedValue)
                sr == seededRandom(sa)
                sh == seededRandom(sr)
            IN  /\ nodes' = Append(nodes, MakeNode(ring, sa, sr, sh))
                /\ ringOf' = Append(ringOf, ring)
                /\ seedValue' = sh
                /\ drawn' = <<sa, sr, sh>>
                /\ i' = i + 1
                            /\ pc' = pc
       ELSE /\ pc' = after
            /\ i' = IF after = "edges" THEN 1 ELSE 0
            /\ drawn' = <<>>
            /\ UNCHANGED << nodes, ringOf, seedValue >>
    /\ UNCHANGED << connections, pairs, edgeDraws, visited, divisions,
                    generations, history, memo, memoDeps >>
    /\ UNCHANGED parentVars
    /\ UNCHANGED viewVars

AddRingCentral == AddRing("central", "middle")
AddRingMiddle == AddRing("middle", "outer")
AddRingOuter == AddRing("outer", "edges")

\* One call of the inner callback (lines 68-82) for the pair (a, b): the
\* locals of generateMindMap after it, from the locals acc before it.
Callback(acc, a, b) ==
    LET n == nodes[a]
        m == nodes[b]
        skip == SkipPair(a, b)
        d == Distance(n, m)
        cd == config.connectionDistance
        near == (~skip) /\ WithinDistance(d, cd)
        draw == seededRandom(acc.seedValue)
        emit == near /\ Accept(draw, config.connectionProbability)
    IN  [seedValue |-> IF near THEN draw ELSE acc.seedValue,
         drawn |-> IF near THEN Append(acc.drawn, draw) ELSE acc.drawn,
         edgeDraws |-> IF near THEN acc.edgeDraws + 1 ELSE acc.edgeDraws,
         visited |-> IF skip THEN acc.visited ELSE acc.visited + 1,
         connections |->
             IF emit
             THEN Append(acc.connections,
                         [from |-> n.position, to |-> m.position,
                          opacity |-> Opacity(d.v, cd)])
             ELSE acc.connections,
         pairs |-> IF emit THEN Append(acc.pairs, <<a, b>>) ELSE acc.pairs,
         divisions |-> IF emit THEN acc.divisions + 1 ELSE acc.divisions]

\* The inner nodes.forEach (line 68) of the outer index a, from b on.
RECURSIVE InnerForEach(_, _, _)
InnerForEach(acc, a, b) ==
    IF b > Len(nodes) THEN acc
    ELSE InnerForEach(Callback(acc, a, b), a, b + 1)

\* One call of the outer callback of nodes.forEach (lines 67-83), which runs
\* the whole inner forEach for the index i, or the end of the outer forEach.
EdgeSelection ==
    /\ pc = "edges"
    /\ IF i > Len(nodes)
       THEN /\ pc' = "return"
            /\ drawn' = <<>>
            /\ UNCHANGED << i, seedValue, connections, pairs, edgeDraws,
                            visited, divisions >>
       ELSE LET acc == InnerForEach(
                          [seedValue |-> seedValue, drawn |-> <<>>,
                           edgeDraws |-> edgeDraws, visited |-> visited,
                           connections |-> connections, pairs |-> pairs,
                           divisions |-> divisions], i, 1)
            IN  /\ seedValue' = acc.seedValue
                /\ drawn' = acc.drawn
                /\ edgeDraws' = acc.edgeDraws
                /\ visited' = acc.visited
                /\ connections' = acc.connections
                /\ pairs' = acc.pairs
                /\ divisions' = acc.divisions
                /\ i' = i + 1
                /\ pc' = pc
    /\ UNCHANGED << nodes, ringOf, generations, history, memo, memoDeps >>
    /\ UNCHANGED parentVars
    /\ UNCHANGED viewVars

\* return { nodes, connections } (line 85); useMemo keeps the value and the
\* dependency it was computed for, and the render commits (line 142).
Return ==
    /\ pc = "return"
    /\ pc' = "idle"
    /\ memo' = [nodes |-> nodes, connections |-> connections]
    /\ memoDeps' = configRef
    /\ groupCurrent' = TRUE
    /\ history' = Append(history,
                         [config |-> config, seed |-> seed, nodes |-> nodes,
                          connections |-> connections, pairs |-> pairs,
                          edgeDraws |-> edgeDraws, visited |-> visited,
                          divisions |-> divisions])
    /\ drawn' = <<>>
    /\ UNCHANGED << seedValue, nodes, connections, i, ringOf, pairs,
                    edgeDraws, visited, divisions, generations >>
    /\ UNCHANGED parentVars
    /\ UNCHANGED << scrollY, rotationY >>

\* -------------------------------------------------------------- MindMap
\* A render of MindMap with the configuration object ref: useMemo runs
\* generateMindMap only when its dependency changed (line 118).
Render(ref) ==
    IF DepsChanged(memoDeps, ref) THEN Enter ELSE UNCHANGED callVars

\* First render of <MindMap config={CONFIG} /> (line 181).
Mount ==
    /\ pc = "idle"
    /\ memoDeps = 0
    /\ Render(configRef)
    /\ UNCHANGED << history, memo, memoDeps >>
    /\ UNCHANGED parentVars
    /\ UNCHANGED viewVars

\* The scroll listener: setScrollY(window.scrollY) and the re-render it
\* causes (lines 121-127).
OnScroll(y) ==
    /\ pc = "idle"
    /\ groupCurrent
    /\ y # scrollY
    /\ scrollY' = y
    /\ Render(configRef)
    /\ UNCHANGED << history, memo, memoDeps, groupCurrent, rotationY >>
    /\ UNCHANGED parentVars

\* The parent renders MindMap with a new configuration object, whose
\* connectionProbability is p and whose other fields are unchanged.
SetConfig(p) ==
    /\ pc = "idle"
    /\ groupCurrent
    /\ configRef < MaxGenerations
    /\ config' = [config EXCEPT !.connectionProbability = p]
    /\ configRef' = configRef + 1
    /\ seed' = seed
    /\ Render(configRef')
    /\ UNCHANGED << history, memo, memoDeps >>
    /\ UNCHANGED viewVars

\* The useFrame callback (lines 129-132).
Frame ==
    /\ pc = "idle"
    /\ IF ~groupCurrent
       THEN rotationY' = rotationY
       ELSE rotationY' = scrollY * config.rotationSpeed
    /\ UNCHANGED << groupCurrent, scrollY, history, memo, memoDeps >>
    /\ UNCHANGED callVars
    /\ UNCHANGED parentVars

Next ==
    \/ Mount
    \/ \E y \in ScrollOffsets : OnScroll(y)
    \/ \E p \in Probabilities : SetConfig(p)
    \/ Frame
    \/ AddRingCentral
    \/ AddRingMiddle
    \/ AddRingOuter
    \/ EdgeSelection
    \/ Return

Spec == Init /\ [][Next]_vars

\* ============================================================ properties
Range(f) == {f[k] : k \in 1..Len(f)}
Positive(n) == IF n > 0 THEN n ELSE 0
Repeat(x, n) == [k \in 1..n |-> x]
AllPairs(n) == {pr \in (1..n) \X (1..n) : pr[1] < pr[2]}
Finished == pc = "return"
OrdinarySeed == (~seed.nan) /\ seed.v >= 0

\* Whether two nodes lie strictly closer than the distance cd, decided on
\* the squared distance.
Closer(n, m, cd) ==
    /\ ~n.nan
    /\ ~m.nan
    /\ cd > 0
    /\ Dist2(n.position, m.position) < cd * cd

\* The pairs (a, b), a < b, that the two nested forEach have passed.
VisitedPairs ==
    IF pc = "edges"
    THEN {pr \in AllPairs(Len(nodes)) : pr[1] < i}
    ELSE AllPairs(Len(nodes))

SameButProbability(a, b) ==
    /\ a.seed = b.seed
    /\ [a.config EXCEPT !.connectionProbability = 0]
         = [b.config EXCEPT !.connectionProbability = 0]

\* C1: two finished calls of generateMindMap with identical configuration
\* and seed returned identical node lists and identical connection lists.
C1_Deterministic ==
    \A a, b \in 1..Len(history) :
        (history[a].config = history[b].config /\ history[a].seed = history[b].seed)
            => /\ history[a].nodes = history[b].nodes
               /\ history[a].connections = history[b].connections

C1_Witness ==
    /\ OrdinarySeed
    /\ Len(history) = 2
    /\ history[1].config = history[2].config
    /\ Len(history[2].nodes) >= 2
    /\ Len(history[2].connections) >= 1

\* C2 (as claimed): the edge-selection pass draws exactly one value for every
\* visited pair (i, j), i < j, so it has drawn n*(n-1)/2 values at its end.
\* Stated for the finite non-negative seeds and the positive
\* connectionDistances, which the claim includes.
C2_OneDrawPerVisitedPair ==
    (OrdinarySeed /\ config.connectionDistance > 0) =>
        /\ pc \in {"edges", "return"} => edgeDraws = visited
        /\ Finished => 2 * edgeDraws = Len(nodes) * (Len(nodes) - 1)

\* C2 (amended): every pair (i, j), i < j, is visited once, in iteration
\* order; one value is drawn for a visited pair whose distance is strictly
\* less than connectionDistance and none for any other pair.
C2_OneDrawPerClosePair ==
    pc \in {"edges", "return"} =>
        /\ visited = Cardinality(VisitedPairs)
        /\ edgeDraws =
             Cardinality({pr \in VisitedPairs :
                            Closer(nodes[pr[1]], nodes[pr[2]],
                                   config.connectionDistance)})
        /\ Finished => 2 * visited = Len(nodes) * (Len(nodes) - 1)

C2_Witness ==
    /\ OrdinarySeed
    /\ Finished
    /\ edgeDraws > 0
    /\ edgeDraws < visited

\* C3 (as claimed): every value returned by seededRandom lies in [0, 1), that
\* is, the state after a call lies in [0, 233280).  Stated for the finite
\* seeds, which the claim includes.
C3_DrawInUnitInterval ==
    (~seed.nan) =>
        \A k \in 1..Len(drawn) :
            /\ ~drawn[k].nan
            /\ drawn[k].v >= 0
            /\ drawn[k].v < Modulus

Degenerate ==
    \/ config.centralNodes <= 0
    \/ config.middleNodes <= 0
    \/ config.outerNodes <= 0
    \/ seed.nan

C5_NodeCountIsSum ==
    (Finished /\ OrdinarySeed) =>
        /\ Len(nodes) = config.centralNodes + config.middleNodes + config.outerNodes
        /\ Len(ringOf) = Len(nodes)
        /\ \A a, b \in 1..Len(ringOf) :
              (a < b) => <<ringOf[a], ringOf[b]>> \notin
                           {<<"middle", "central">>, <<"outer", "central">>,
                            <<"outer", "middle">>}

\* C5 (amended): the node list has max(0, centralNodes) central nodes, then
\* max(0, middleNodes) middle nodes, then max(0, outerNodes) outer nodes;
\* centralNodes = 1 with no other node gives one node and no connection.
C5_NodeCountIsClampedSum ==
    Finished =>
        /\ Len(nodes) = Positive(config.centralNodes)
                          + Positive(config.middleNodes)
                          + Positive(config.outerNodes)
        /\ ringOf = Repeat("central", Positive(config.centralNodes))
                      \o Repeat("middle", Positive(config.middleNodes))
                      \o Repeat("outer", Positive(config.outerNodes))
        /\ (config.centralNodes = 1 /\ config.middleNodes = 0
                /\ config.outerNodes = 0)
              => (Len(nodes) = 1 /\ connections = <<>>)

C5_Witness ==
    /\ OrdinarySeed
    /\ Finished
    /\ config.centralNodes = 2
    /\ config.middleNodes = 1
    /\ config.outerNodes = 2
    /\ Len(nodes) = 5

RadiusRange(ring) ==
    CASE ring = "central" -> <<Unit \div 2, 2 * Unit>>
      [] ring = "middle"  -> <<3 * Unit, 5 * Unit>>
      [] ring = "outer"   -> <<5 * Unit, 9 * Unit>>

PlanarRadius2(n) == n.position[1] * n.position[1] + n.position[3] * n.position[3]

\* C6 (as claimed): the planar radius of every node lies in the range of its
\* ring: [0.5, 2) central, [3, 5) middle, [5, 9) outer.  Stated for the
\* finite seeds, which the claim includes.
C6_RadiusInRing ==
    (~seed.nan) =>
        \A k \in 1..Len(nodes) :
            LET range == RadiusRange(ringOf[k])
            IN  /\ ~nodes[k].nan
                /\ PlanarRadius2(nodes[k]) >= range[1] * range[1]
                /\ PlanarRadius2(nodes[k]) < range[2] * range[2]

\* C7: every connection comes from a pair (i, j) with i < j, so none joins a
\* node with itself, and no pair of indices gives more than one connection.
C7_NoSelfNoDuplicate ==
    /\ Len(pairs) = Len(connections)
    /\ \A k \in 1..Len(pairs) :
          /\ pairs[k][1] < pairs[k][2]
          /\ pairs[k][2] <= Len(nodes)
          /\ connections[k].from = nodes[pairs[k][1]].position
          /\ connections[k].to = nodes[pairs[k][2]].position
    /\ \A k, l \in 1..Len(pairs) :
          (k # l) => {pairs[k][1], pairs[k][2]} # {pairs[l][1], pairs[l][2]}
    /\ pc \in {"edges", "return"} => visited = Cardinality(VisitedPairs)

C7_Witness ==
    /\ OrdinarySeed
    /\ Finished
    /\ Len(pairs) >= 3

\* C8: the two ends of every connection are strictly closer than
\* connectionDistance; with connectionDistance <= 0 there is no connection
\* and d / connectionDistance is never evaluated.
C8_ConnectionsWithinDistance ==
    /\ \A k \in 1..Len(connections) :
          /\ config.connectionDistance > 0
          /\ Dist2(connections[k].from, connections[k].to)
                < config.connectionDistance * config.connectionDistance
    /\ config.connectionDistance <= 0 => (connections = <<>> /\ divisions = 0)

C8_Witness ==
    /\ OrdinarySeed
    /\ Finished
    /\ Len(connections) >= 1
    /\ visited > edgeDraws

\* C9: generateMindMap is entered only for a configuration reference other
\* than the one the memoised value was computed for; a frame callback or a
\* scroll update never enters it and never changes the memoised result.
C9_RegenerationOnlyOnNewConfig ==
    [][ /\ (generations' # generations) => (configRef' # memoDeps)
        /\ (Frame \/ \E y \in ScrollOffsets : OnScroll(y))
              => /\ generations' = generations
                 /\ memo' = memo
                 /\ pc' = "idle" ]_vars

C9_Witness ==
    /\ OrdinarySeed
    /\ pc = "idle"
    /\ generations = 1
    /\ scrollY = 200
    /\ rotationY = 200 * RotationSpeed
    /\ Len(memo.connections) >= 1

\* C10: with the same seed, ring counts and connectionDistance, the pairs
\* connected under a connectionProbability are among the pairs connected
\* under any smaller or equal connectionProbability.
C10_MonotoneThreshold ==
    \A a, b \in 1..Len(history) :
        (/\ SameButProbability(history[a], history[b])
         /\ history[a].config.connectionProbability
               <= history[b].config.connectionProbability)
            => Range(history[b].pairs) \subseteq Range(history[a].pairs)

C10_Witness ==
    /\ OrdinarySeed
    /\ Len(history) = 2
    /\ history[1].config.connectionProbability
          < history[2].config.connectionProbability
    /\ Range(history[2].pairs) # {}
    /\ Range(history[2].pairs) # Range(history[1].pairs)

====
